---- MODULE Spec2Model ----
(***************************************************************************)
(* TrueTag backend: the relational store (users, products, batches, tags, *)
(* scans), the external minting contract, and the request handlers of     *)
(* routers/tags.py, routers/verify.py, routers/products.py,               *)
(* routers/auth.py and scripts/bulk_minter.py.                            *)
(*                                                                         *)
(* Every handler runs in its own database session.  A handler whose code  *)
(* reads the store and writes it in a later statement is modelled by two  *)
(* steps (the read, then the write and commit), so that other requests    *)
(* may commit in between; the other handlers are one step.                *)
(***************************************************************************)
EXTENDS Integers, Sequences, FiniteSets, TLC

(* ------------------------------ bounds -------------------------------- *)
\* concurrent request slots
MaxReq == 2
\* largest count a mint or an assignment request asks for
MaxCount == 2
\* most Tag rows the store holds
MaxTags == 3
\* most values drawn from the batches id sequence
MaxBatchSeq == 2
\* most Scan rows the store holds
MaxScans == 2
MaxImage == 3
MaxUsers == 5

\* a NULL column / a Python None or 0 argument (ids start at 1)
None == 0

VARIABLES
    users,      \* table users: id (the index) -> row
    products,   \* table products: id (the index) -> row
    batches,    \* table batches: the committed rows
    tags,       \* table tags: id (the index) -> row
    scans,      \* table scans: id (the index) -> row
    batchSeq,   \* last value drawn from the batches id sequence
    chain,      \* the contract: the mint transactions it confirmed, their codes, the last call
    contract,   \* routers/tags.py module global `contract` (FALSE: None)
    req,        \* request slots: the handler running or last run in each
    password_reset_tokens,  \* table password_reset_tokens: the committed rows
    tokenSeq,   \* number of values secrets.token_urlsafe has returned
    now,        \* datetime.now(timezone.utc), in units of half an hour
    user_cache  \* fastapi-cache entries of get_current_user: token -> the row it returned

\* what the password-reset handlers keep besides the users table
resets == <<password_reset_tokens, tokenSeq, now>>

vars == <<users, products, batches, tags, scans, batchSeq, chain, contract, req, resets,
         user_cache>>
store == <<users, products, batches, tags, scans>>

Req == 1..MaxReq

Max(a, b) == IF a >= b THEN a ELSE b
SetMin(S) == CHOOSE x \in S : \A y \in S : x <= y
Range(s) == {s[k] : k \in DOMAIN s}

(* ------------------------- request bookkeeping ------------------------ *)
NoTag == [id |-> None, status |-> "", product_id |-> None]
NoBatch == [id |-> None, count |-> 0, status |-> "", product_id |-> None,
            manufacturer_id |-> None, mint_type |-> "", tx |-> None]

\* a form field or body attribute that was not sent (None in the handler)
NotSent == ""
NoBody == [email |-> NotSent, password |-> NotSent, name |-> NotSent, role |-> NotSent]

Idle == [op |-> "idle", pc |-> "idle", user |-> None, product_id |-> None,
         count |-> 0, tag_code |-> None, sel |-> {}, tag |-> NoTag,
         existing_scan |-> FALSE, code |-> 0, result |-> "", batch |-> NoBatch,
         body |-> NoBody, mint_type |-> NotSent, onchain |-> "",
         filter |-> NotSent, listed |-> {}, status |-> "", token |-> None,
         detail |-> "", cached |-> FALSE, set_email |-> FALSE]

\* A new request takes the lowest slot with no handler running.
StartOk(i) ==
    /\ req[i].pc # "run"
    /\ \A j \in Req : j < i => req[j].pc = "run"

\* The slots when a new request arrives: the responses already delivered are gone.
Cleared == [j \in Req |-> IF req[j].pc = "run" THEN req[j] ELSE Idle]

\* slot i ends (or starts and ends) with response r
Respond(i, r) == req' = [Cleared EXCEPT ![i] = r]
Finish(i, r) == req' = [req EXCEPT ![i] = r]

Done(op, code) == [Idle EXCEPT !.op = op, !.pc = "done", !.code = code]

(* ------------------------------ oauth2 -------------------------------- *)
\* A bearer token is modelled by the user id it encodes; 0 is a token that
\* does not decode or names no user.
Authenticated(token) == token \in DOMAIN users

\* @cache(expire=CACHE_EXPIRATION_SECONDS): a call with a token that has an
\* entry returns the entry, the row the token resolved to when the entry was
\* made, without reading the users table; any other call runs the function.
\* (What fastapi-cache does is taken from the decorator's name and the
\* docstrings of this module; the library is not part of the repository.)
CurrentUser(token) ==
    IF token \in DOMAIN user_cache THEN user_cache[token] ELSE users[token]

get_current_user(token) ==
    IF token \in DOMAIN user_cache \/ Authenticated(token) THEN 200 ELSE 401

\* the entries after get_current_user(token): a row the function returned is
\* kept, a raised 401 is not.  The handlers of the specifications in which no
\* user row is ever changed leave this out: there an entry is the stored row.
CacheAfter(token) ==
    IF token \in DOMAIN user_cache \/ ~Authenticated(token) THEN user_cache
    ELSE [t \in DOMAIN user_cache \cup {token} |->
              IF t = token THEN users[token] ELSE user_cache[t]]

\* a dependency that only authenticates
AnyAuthenticated(token) == get_current_user(token)

get_current_admin(token) ==
    IF get_current_user(token) # 200 THEN 401
    ELSE IF CurrentUser(token).role # "admin" THEN 403
    ELSE 200

(* ------------------------------- uuid4 -------------------------------- *)
\* uuid4() returns a value no code path controls.  Values are modelled by
\* naturals up to renaming: a draw is the least value not yet seen (any new
\* value) or one of the values already seen (a collision).
Uuid4(seen) == seen \cup {SetMin((1..(Cardinality(seen) + 1)) \ seen)}

\* [uuid4() for _ in range(n)]: range(n) is empty for n <= 0
RECURSIVE UuidList(_, _)
UuidList(n, seen) ==
    IF n <= 0 THEN {<<>>}
    ELSE UNION {{<<c>> \o s : s \in UuidList(n - 1, seen \cup {c})} : c \in Uuid4(seen)}

\* the new values only: the case that happens in practice
RECURSIVE FreshList(_, _)
FreshList(n, seen) ==
    IF n <= 0 THEN <<>>
    ELSE LET c == SetMin((1..(Cardinality(seen) + 1)) \ seen)
         IN  <<c>> \o FreshList(n - 1, seen \cup {c})

SeenCodes == {tags[k].tag_code : k \in DOMAIN tags} \cup chain.codes
SeenTokens == {tags[k].token_id.uuid : k \in DOMAIN tags}

\* f"TOKEN_{uuid4()}"
TokenId(u) == [prefix |-> "TOKEN_", uuid |-> u]

(* --------------------------- the tags table --------------------------- *)
\* the tags table without its unique constraints
NoUniqueConstraint(rows) == TRUE

\* tag_code and token_id are unique columns: a flush that breaks either raises
UniqueTags(rows) ==
    \A a, b \in DOMAIN rows :
        a # b => /\ rows[a].tag_code # rows[b].tag_code
                 /\ rows[a].token_id # rows[b].token_id

\* a foreign key to products.id: NULL or an existing row
ProductFk(product_id) == product_id = None \/ product_id \in DOMAIN products

\* a foreign key to users.id
UserFk(user_id) == user_id \in DOMAIN users

(* ------------------------------ minting ------------------------------- *)
\* the entry points of services/blockchain_service.py and what each passes
\* to the contract besides the codes
NoCall == [fn |-> "", codes |-> <<>>, arg |-> None]
mint_warehouse_batch == [fn |-> "mintWarehouseBatch", arg |-> None]
mint_tags_in_bulk(manufacturer_id) == [fn |-> "mintBatch", arg |-> manufacturer_id]

NewTag(code, tok, tx, status, batch_id, product_id) ==
    [tag_code |-> code, token_id |-> TokenId(tok), blockchain_tx_hash |-> tx,
     status |-> status, product_id |-> product_id, batch_id |-> batch_id]

\* a session that writes what it holds when the commit fails
FlushPending(committed, pending) == pending

\* await db.rollback() in the except branch: the rows the session added are
\* discarded, the table keeps the committed rows
Rollback(committed, pending) == committed

\* db.add(batch); await db.flush(): the row gets its id from the sequence and
\* is visible to this session only.  Then the try block: the external mint
\* call (ext: "ok", the transaction is confirmed, or "raise"), the Tag rows
\* and the commit, which raises when a unique column repeats; the except
\* branch rolls the session back (the flushed batch row included) and sets
\* status on the batch object, which no later statement writes to the store.
MintTry(i, call, failCode, batch, tagStatus, tagProduct, entry, ext, codes, toks) ==
    LET id == batchSeq + 1
        tx == chain.txs + 1
        minted == [batch EXCEPT !.id = id, !.tx = tx, !.status = "minted"]
        rows == [k \in DOMAIN codes |->
                    NewTag(codes[k], toks[k], tx, tagStatus, id, tagProduct)]
        failed(b) == [call EXCEPT !.code = failCode, !.batch = [b EXCEPT !.status = "failed"]]
    IN  /\ batchSeq' = id
        /\ IF ext = "raise"
           THEN /\ Respond(i, failed([batch EXCEPT !.id = id]))
                /\ UNCHANGED <<batches, tags, chain>>
           ELSE /\ chain' = [txs |-> tx, codes |-> chain.codes \cup Range(codes),
                              last |-> [fn |-> entry.fn, codes |-> codes, arg |-> entry.arg]]
                /\ IF UniqueTags(tags \o rows)
                   THEN /\ batches' = batches \cup {minted}
                        /\ tags' = tags \o rows
                        /\ Respond(i, [call EXCEPT !.code = 200, !.batch = minted])
                   ELSE /\ Respond(i, failed(minted))
                        /\ tags' = Rollback(tags, tags \o rows)
                        /\ batches' = batches

NewBatch(count, product_id, manufacturer_id, mint_type) ==
    [id |-> None, count |-> count, status |-> "pending", product_id |-> product_id,
     manufacturer_id |-> manufacturer_id, mint_type |-> mint_type, tx |-> None]

\* a mint request as the handler received it: the caller and the body
MintCall(op, token, mint_type, product_id, count) ==
    [Done(op, 0) EXCEPT !.user = token, !.mint_type = mint_type,
                        !.product_id = product_id, !.count = count]

\* the answer of get_current_admin when it is not the admin: a 403 names
\* the user the token resolved to
Rejected(op, token) ==
    IF get_current_admin(token) = 403
    THEN [Done(op, 403) EXCEPT !.user = token]
    ELSE Done(op, get_current_admin(token))

\* POST /tags/mint/warehouse
mint_warehouse_tags(i, token, mint_type, count, ext, codes, toks) ==
    /\ StartOk(i)
    /\ UNCHANGED <<users, products, scans, contract, resets, user_cache>>
    /\ IF get_current_admin(token) # 200
       THEN /\ Respond(i, Rejected("mint_warehouse", token))
            /\ UNCHANGED <<batches, tags, batchSeq, chain>>
       ELSE IF mint_type # "warehouse"
       THEN /\ Respond(i, [MintCall("mint_warehouse", token, mint_type, None, count)
                               EXCEPT !.code = 400])
            /\ UNCHANGED <<batches, tags, batchSeq, chain>>
       ELSE MintTry(i, MintCall("mint_warehouse", token, mint_type, None, count), 500,
                    NewBatch(count, None, token, "warehouse"),
                    "unused", None, mint_warehouse_batch, ext, codes, toks)

\* POST /tags/mint/direct.  The flush of a batch whose product_id names no
\* product breaks the foreign key before the try block is entered.
mint_direct_tags(i, token, mint_type, product_id, count, ext, codes, toks) ==
    /\ StartOk(i)
    /\ UNCHANGED <<users, products, scans, contract, resets, user_cache>>
    /\ IF get_current_admin(token) # 200
       THEN /\ Respond(i, Rejected("mint_direct", token))
            /\ UNCHANGED <<batches, tags, batchSeq, chain>>
       ELSE IF mint_type # "direct" \/ product_id = None
       THEN /\ Respond(i, [MintCall("mint_direct", token, mint_type, product_id, count)
                               EXCEPT !.code = 400])
            /\ UNCHANGED <<batches, tags, batchSeq, chain>>
       ELSE IF ~ProductFk(product_id)
       THEN /\ Respond(i, [MintCall("mint_direct", token, mint_type, product_id, count)
                               EXCEPT !.code = 500])
            /\ batchSeq' = batchSeq + 1
            /\ UNCHANGED <<batches, tags, chain>>
       ELSE MintTry(i, MintCall("mint_direct", token, mint_type, product_id, count), 500,
                    NewBatch(count, product_id, token, "direct"),
                    "active", product_id, mint_tags_in_bulk(product_id), ext, codes, toks)

\* scripts/bulk_minter.py, run by an operator: no HTTP response, the
\* exception is re-raised (code 1) or the coroutine returns (code 200 stands
\* for a normal exit).  Batch.mint_type takes its column default.
bulk_mint_and_store(i, count, manufacturer_id, ext, codes, toks) ==
    /\ StartOk(i)
    /\ UNCHANGED <<users, products, scans, contract, resets, user_cache>>
    /\ IF ~UserFk(manufacturer_id)
       THEN /\ Respond(i, Done("bulk_mint", 1))
            /\ batchSeq' = batchSeq + 1
            /\ UNCHANGED <<batches, tags, chain>>
       ELSE MintTry(i, MintCall("bulk_mint", manufacturer_id, NotSent, None, count), 1,
                    NewBatch(count, None, manufacturer_id, "warehouse"),
                    "unused", None, mint_tags_in_bulk(batchSeq + 1), ext, codes, toks)

(* ----------------------------- assignment ----------------------------- *)
UnusedTags == {k \in DOMAIN tags : tags[k].status = "unused"}

\* select(Tag).where(Tag.status == "unused").limit(count): with no ORDER BY
\* the database returns any `count` of the unused rows, or all of them when
\* there are fewer
SelectUnused(count) ==
    IF Cardinality(UnusedTags) <= count THEN {UnusedTags}
    ELSE {S \in SUBSET UnusedTags : Cardinality(S) = count}

\* if len(available_tags) < count: 400
NoPartialAssignment(available, count) == FALSE
NotEnoughTags(available, count) == Cardinality(available) < count

\* a query by id alone
AnyProduct(id, user) == id \in DOMAIN products

\* select(Product).where(Product.id == id, Product.manufacturer_id == current_user.id)
OwnedProduct(id, user) ==
    id \in DOMAIN products /\ products[id].manufacturer_id = user

\* the conditional update the handler does not make: only rows still unused
UpdateTagsStillUnused(rows, codes, product_id) ==
    [k \in DOMAIN rows |->
        IF rows[k].tag_code \in codes /\ rows[k].status = "unused"
        THEN [rows[k] EXCEPT !.product_id = product_id, !.status = "active"]
        ELSE rows[k]]

\* update(Tag).where(Tag.tag_code.in_(codes)).values(product_id=..., status="active")
UpdateTags(rows, codes, product_id) ==
    [k \in DOMAIN rows |->
        IF rows[k].tag_code \in codes
        THEN [rows[k] EXCEPT !.product_id = product_id, !.status = "active"]
        ELSE rows[k]]

\* POST /tags/generate, up to the 400: the checks and the SELECT.  PostgreSQL
\* rejects a negative LIMIT, which the handler does not catch.
AssignSelect(i, token, product_id, count, picked) ==
    /\ StartOk(i)
    /\ UNCHANGED <<users, products, batches, tags, scans, batchSeq, chain, contract, resets, user_cache>>
    /\ LET call == [Idle EXCEPT !.op = "assign", !.user = token,
                                !.product_id = product_id, !.count = count]
           end(code) == [call EXCEPT !.pc = "done", !.code = code]
       IN  IF get_current_user(token) # 200 THEN Respond(i, Done("assign", 401))
           ELSE IF CurrentUser(token).role # "manufacturer" THEN Respond(i, Done("assign", 403))
           ELSE IF ~OwnedProduct(product_id, token) THEN Respond(i, end(404))
           ELSE IF count < 0 THEN Respond(i, end(500))
           ELSE IF NotEnoughTags(picked, count) THEN Respond(i, end(400))
           ELSE Respond(i, [call EXCEPT !.pc = "run",
                                        !.sel = {tags[k].tag_code : k \in picked}])

\* POST /tags/generate, from the UPDATE on: the bulk update by tag_code, the
\* commit and the response
AssignUpdate(i) ==
    /\ req[i].op = "assign" /\ req[i].pc = "run"
    /\ tags' = UpdateTags(tags, req[i].sel, req[i].product_id)
    /\ Finish(i, [req[i] EXCEPT !.pc = "done", !.code = 200])
    /\ UNCHANGED <<users, products, batches, scans, batchSeq, chain, contract, resets, user_cache>>

(* ---------------------------- verification ---------------------------- *)
\* select(Tag).where(Tag.tag_code == tag_code) ... .first(): the tag's id, or None
TagByCode(tag_code) ==
    IF \E k \in DOMAIN tags : tags[k].tag_code = tag_code
    THEN SetMin({k \in DOMAIN tags : tags[k].tag_code = tag_code})
    ELSE None

NewScan(tag_id, verification_result) ==
    [tag_id |-> tag_id, user_id |-> None, verification_result |-> verification_result]

\* a handler that flagged the tag of a scan that is not valid
FlagNotValid(rows, t, result) ==
    IF result = "valid" THEN rows ELSE [rows EXCEPT ![t].status = "flagged"]

\* the commit of a verification: the session holds the new Scan and the tag
\* as it was read, no attribute of which the handler assigns
TagsAfterScan(rows, t, result) == rows

\* a handler that committed the Scan only when it can respond
ScanOnlyWithProduct(product_id) == product_id # None

\* db.add(scan); await db.commit() come before the response is built (and
\* before the product check), in both handlers: the Scan row is committed
\* whatever the tag's product is
ScanCommitted(product_id) == TRUE

\* a rule that does not look at the earlier Scan rows
ResultFromStatus(existing_scan, status) == IF status = "active" THEN "valid" ELSE "invalid"

\* routers/verify.py step 3
PublicResult(existing_scan, status) ==
    IF ~existing_scan /\ status = "active" THEN "valid"
    ELSE IF existing_scan /\ status = "active" THEN "duplicate"
    ELSE "invalid"

\* int(tag.token_id): a ValueError unless the string is a decimal number
IntParses(token_id) == token_id.prefix = ""

\* routers/tags.py steps 2 and 3.  onchain is what the ownerOf call does:
\* "owner_ok", "owner_mismatch", "logic_error" (ContractLogicError) or "fault".
TagsResult(status, token_id, hasContract, onchain) ==
    IF status \in {"unused", "flagged"} THEN "invalid"
    ELSE IF ~hasContract THEN "valid"
    ELSE IF ~IntParses(token_id) THEN "blockchain_error"
    ELSE IF onchain = "owner_mismatch" THEN "tampered"
    ELSE IF onchain = "logic_error" THEN "invalid"
    ELSE IF onchain = "fault" THEN "blockchain_error"
    ELSE "valid"

\* The fields each of the two VerificationResponse classes requires (those
\* with no default), and the keyword arguments each handler passes: a
\* missing required field raises a ValidationError after the scan is
\* committed.
VerificationResponseOfScan ==
    {"tag_id", "tag_code", "verification_result", "product_name",
     "product_category", "product_image_url", "timestamp"}
VerificationResponseOfVerification ==
    {"tag_id", "tag_code", "verification_result", "product_name", "product_category",
     "product_brand", "scan_id", "scan_timestamp", "scan_location"}

\* schemas.VerificationResponse: the class the schemas package exports.  The
\* package's __init__ is not part of the sources; the public endpoint
\* answers with a result only if it is the class of schemas/scan.py.
VerificationResponseRequired == VerificationResponseOfScan
PublicVerifyKwargs ==
    {"tag_id", "tag_code", "verification_result", "product_name",
     "product_description", "product_category", "product_image_url", "timestamp"}
TagsVerifyKwargs ==
    {"tag_id", "tag_code", "verification_result", "product_name", "product_image_url"}

\* GET /verify/{tag_code}, the reads: the tag (with its product) and whether
\* a Scan row of it exists.  The two SELECTs are one step: the status read
\* first can only change from unused to active, which no scan read can tell
\* from a tag read at the time of the second SELECT when it matters.
PublicVerifyRead(i, tag_code) ==
    /\ StartOk(i)
    /\ UNCHANGED <<users, products, batches, tags, scans, batchSeq, chain, contract, resets, user_cache>>
    /\ LET t == TagByCode(tag_code)
           call == [Idle EXCEPT !.op = "verify_public", !.tag_code = tag_code]
       IN  IF t = None THEN Respond(i, [call EXCEPT !.pc = "done", !.code = 404])
           ELSE Respond(i, [call EXCEPT
                    !.pc = "run",
                    !.tag = [id |-> t, status |-> tags[t].status,
                             product_id |-> tags[t].product_id],
                    !.existing_scan = \E k \in DOMAIN scans : scans[k].tag_id = t])

\* GET /verify/{tag_code}, from step 3 on: the result, the Scan row, the
\* commit, and the response built from the product loaded with the tag
PublicVerifyCommit(i) ==
    /\ req[i].op = "verify_public" /\ req[i].pc = "run"
    /\ LET r == PublicResult(req[i].existing_scan, req[i].tag.status)
       IN  /\ scans' = IF ScanCommitted(req[i].tag.product_id)
                       THEN Append(scans, NewScan(req[i].tag.id, r)) ELSE scans
           /\ Finish(i, [req[i] EXCEPT
                    !.pc = "done", !.result = r,
                    !.code = IF req[i].tag.product_id = None THEN 500
                             ELSE IF VerificationResponseRequired \subseteq PublicVerifyKwargs
                             THEN 200 ELSE 500])
           /\ tags' = TagsAfterScan(tags, req[i].tag.id, r)
    /\ UNCHANGED <<users, products, batches, batchSeq, chain, contract, resets, user_cache>>

\* GET /tags/verify/{tag_code}: one read of the tag, one appended Scan.
\* tag.product.name raises AttributeError when the tag has no product.
verify_tag(i, tag_code, onchain) ==
    /\ StartOk(i)
    /\ UNCHANGED <<users, products, batches, batchSeq, chain, contract, resets, user_cache>>
    /\ LET t == TagByCode(tag_code)
           call == [Idle EXCEPT !.op = "verify_tags", !.tag_code = tag_code, !.pc = "done",
                                !.onchain = onchain]
       IN  IF t = None
           THEN Respond(i, [call EXCEPT !.code = 404]) /\ UNCHANGED <<scans, tags>>
           ELSE LET r == TagsResult(tags[t].status, tags[t].token_id, contract, onchain)
                IN  /\ scans' = IF ScanCommitted(tags[t].product_id)
                                THEN Append(scans, NewScan(t, r)) ELSE scans
                    /\ tags' = TagsAfterScan(tags, t, r)
                    /\ Respond(i, [call EXCEPT
                            !.result = r,
                            !.tag = [id |-> t, status |-> tags[t].status,
                                     product_id |-> tags[t].product_id],
                            !.code = IF tags[t].product_id = None THEN 500
                                     ELSE IF VerificationResponseRequired \subseteq TagsVerifyKwargs
                                     THEN 200 ELSE 500])

(* ------------------------------ the store ----------------------------- *)
User(email, password, role, name) ==
    [email |-> email, password |-> password, role |-> role, name |-> name]

Product(manufacturer_id, name, image_url, status) ==
    [manufacturer_id |-> manufacturer_id, name |-> name, image_url |-> image_url,
     status |-> status]

\* utils.hash_password: bcrypt, modelled as an injective tag (the salt is left out)
hash_password(password) == <<"bcrypt", password>>

\* A store the API reaches: an admin (created out of band: register_user only
\* makes manufacturers), two registered manufacturers, one product each.
SeededUsers ==
    <<User("admin@t", hash_password("pw"), "admin", "root"),
      User("a@m", hash_password("pw"), "manufacturer", "A"),
      User("b@m", hash_password("pw"), "manufacturer", "B")>>
SeededProducts == <<Product(2, "P", 1, "active"), Product(3, "Q", 2, "active")>>

(* ------------------------------ accounts ------------------------------ *)
\* a check that never finds the email
EmailNeverRegistered(email) == FALSE

\* select(User).where(User.email == email) ... .first() is not None
EmailRegistered(email) == \E u \in DOMAIN users : users[u].email = email

\* users.email is unique=True: the commit of a second row with the email
\* raises IntegrityError
UniqueEmail(rows) == \A u, v \in DOMAIN rows : rows[u].email = rows[v].email => u = v

\* a handler that stored the role of the request body
RoleFromBody(role) == role

\* models.User(..., role="manufacturer"): user_in.role is not read
RegisteredRole(role) == "manufacturer"

\* POST /auth/register, the duplicate check
RegisterCheck(i, email, password, name, role) ==
    /\ StartOk(i)
    /\ UNCHANGED <<users, products, batches, tags, scans, batchSeq, chain, contract, resets, user_cache>>
    /\ LET call == [Idle EXCEPT !.op = "register",
                                !.body = [NoBody EXCEPT !.email = email,
                                                        !.password = password,
                                                        !.name = name, !.role = role]]
       IN  IF EmailRegistered(email)
           THEN Respond(i, [call EXCEPT !.pc = "done", !.code = 400])
           ELSE Respond(i, [call EXCEPT !.pc = "run"])

\* POST /auth/register, from the hash on: the INSERT and the commit
RegisterCommit(i) ==
    /\ req[i].op = "register" /\ req[i].pc = "run"
    /\ LET user == User(req[i].body.email, hash_password(req[i].body.password),
                        RegisteredRole(req[i].body.role), req[i].body.name)
       IN  IF UniqueEmail(Append(users, user))
           THEN /\ users' = Append(users, user)
                /\ Finish(i, [req[i] EXCEPT !.pc = "done", !.code = 201, !.user = Len(users) + 1])
           ELSE /\ users' = users
                /\ Finish(i, [req[i] EXCEPT !.pc = "done", !.code = 500])
    /\ UNCHANGED <<products, batches, tags, scans, batchSeq, chain, contract, resets, user_cache>>

(* --------------------------- password reset --------------------------- *)
\* timedelta(hours=1), in the units of `now`
Hour == 2

\* secrets.token_urlsafe(32): 256 random bits, a value no earlier call
\* returned.  Values are modelled by naturals up to renaming, the k-th value
\* drawn by k; the row's id comes from a sequence in the same order.
token_urlsafe == tokenSeq + 1

PasswordResetToken(id, user_id, token, expires_at) ==
    [id |-> id, user_id |-> user_id, token |-> token, expires_at |-> expires_at]

\* select(User).where(User.email == payload.email) ... .first(); None if no row
UserByEmail(email) ==
    IF EmailRegistered(email)
    THEN CHOOSE u \in DOMAIN users : users[u].email = email
    ELSE None

\* select(PasswordResetToken).where(token == payload.token): the rows found
\* (token is unique=True, so at most one)
TokenRows(token) == {r \in password_reset_tokens : r.token = token}

\* a check that accepts a token of any age
NeverExpired(token_rec) == FALSE

\* token_rec.expires_at < now
Expired(token_rec) == token_rec.expires_at < now

\* a clean-up that leaves the token row in place
KeepToken(rows, id) == rows

\* await db.delete(token_rec): DELETE ... WHERE id = :id.  A row another
\* request already deleted matches nothing, which the ORM only warns about.
DeleteToken(rows, id) == {r \in rows : r.id # id}

\* an answer that tells the caller no account has the email
NoAccountDetail == "No account with this email"

\* the dict returned when no user has the email
UnknownAccountDetail == "If an account exists, a reset link will be sent"

\* the dict returned after the token is committed
KnownAccountDetail == "If an account exists, a reset link will be sent"

\* POST /auth/password-reset-request (status_code 202 on every return)
request_password_reset(i, email) ==
    /\ StartOk(i)
    /\ UNCHANGED <<users, products, batches, tags, scans, batchSeq, chain, contract, now, user_cache>>
    /\ LET call == [Done("request_password_reset", 202) EXCEPT
                        !.body = [NoBody EXCEPT !.email = email]]
           user == UserByEmail(email)
       IN  IF user = None
           THEN /\ Respond(i, [call EXCEPT !.detail = UnknownAccountDetail])
                /\ UNCHANGED <<password_reset_tokens, tokenSeq>>
           ELSE /\ tokenSeq' = tokenSeq + 1
                /\ password_reset_tokens' = password_reset_tokens \cup
                       {PasswordResetToken(tokenSeq + 1, user, token_urlsafe, now + Hour)}
                /\ Respond(i, [call EXCEPT !.detail = KnownAccountDetail])

\* POST /auth/password-reset, the two SELECTs and their checks
ResetRead(i, token, new_password) ==
    /\ StartOk(i)
    /\ UNCHANGED <<users, products, batches, tags, scans, batchSeq, chain, contract, resets, user_cache>>
    /\ LET call == [Idle EXCEPT !.op = "reset_password", !.token = token,
                                !.body = [NoBody EXCEPT !.password = new_password]]
           found == TokenRows(token)
       IN  IF found = {} \/ \E r \in found : Expired(r)
           THEN Respond(i, [call EXCEPT !.pc = "done", !.code = 400])
           ELSE LET token_rec == CHOOSE r \in found : TRUE
                IN  IF token_rec.user_id \notin DOMAIN users
                    THEN Respond(i, [call EXCEPT !.pc = "done", !.code = 400])
                    ELSE Respond(i, [call EXCEPT !.pc = "run", !.user = token_rec.user_id,
                                                 !.sel = {token_rec.id}])

\* POST /auth/password-reset, from the hash on: the UPDATE, the DELETE, the commit
ResetCommit(i) ==
    /\ req[i].op = "reset_password" /\ req[i].pc = "run"
    /\ users' = [users EXCEPT ![req[i].user].password = hash_password(req[i].body.password)]
    /\ password_reset_tokens' =
           DeleteToken(password_reset_tokens, CHOOSE id \in req[i].sel : TRUE)
    /\ Finish(i, [req[i] EXCEPT !.pc = "done", !.code = 200])
    /\ UNCHANGED <<products, batches, tags, scans, batchSeq, chain, contract, tokenSeq, now, user_cache>>

(* -------------------------------- users ------------------------------- *)
\* schemas.UserResponse.from_orm(user): email, name and role of the row
UserResponse(user) ==
    [NoBody EXCEPT !.email = user.email, !.name = user.name, !.role = user.role]

\* POST /auth/login
login_user(i, email, password) ==
    /\ StartOk(i)
    /\ UNCHANGED <<users, products, batches, tags, scans, batchSeq, chain, contract, resets, user_cache>>
    /\ LET call == [Done("login", 401) EXCEPT !.body = [NoBody EXCEPT !.email = email]]
           user == UserByEmail(email)
       IN  IF user = None \/ users[user].password # hash_password(password)
           THEN Respond(i, call)
           ELSE Respond(i, [call EXCEPT !.code = 200, !.user = user])

\* GET /users/me
get_current_user_profile(i, token) ==
    /\ StartOk(i)
    /\ UNCHANGED <<users, products, batches, tags, scans, batchSeq, chain, contract, resets>>
    /\ user_cache' = CacheAfter(token)
    /\ IF get_current_user(token) # 200
       THEN Respond(i, Done("get_current_user_profile", 401))
       ELSE Respond(i, [Done("get_current_user_profile", 200) EXCEPT
                            !.user = token, !.body = UserResponse(CurrentUser(token))])

\* current_user.email, of the row get_current_user returned
EmailOfCurrentUser(token) == CurrentUser(token).email

\* PUT /users/me up to the assignments: the dependency, the uniqueness check
ProfileCheck(i, token, email, name) ==
    /\ StartOk(i)
    /\ UNCHANGED <<users, products, batches, tags, scans, batchSeq, chain, contract, resets>>
    /\ user_cache' = CacheAfter(token)
    /\ LET call == [Idle EXCEPT !.op = "update_current_user_profile", !.user = token,
                                !.body = [NoBody EXCEPT !.email = email, !.name = name],
                                !.cached = token \in DOMAIN user_cache]
       IN  IF get_current_user(token) # 200
           THEN Respond(i, Done("update_current_user_profile", 401))
           ELSE IF email # NotSent /\ email # EmailOfCurrentUser(token)
           THEN IF EmailRegistered(email)
                THEN Respond(i, [call EXCEPT !.pc = "done", !.code = 400])
                ELSE Respond(i, [call EXCEPT !.pc = "run", !.set_email = TRUE])
           ELSE Respond(i, [call EXCEPT !.pc = "run"])

\* the row after current_user.email = ..., current_user.name = ...
ProfileRow(row, body, set_email) ==
    [row EXCEPT !.email = IF set_email THEN body.email ELSE row.email,
                !.name = IF body.name # NotSent THEN body.name ELSE row.name]

\* PUT /users/me from the commit on.  A row returned by the cache was not
\* loaded by this request's session: the commit has nothing to flush and
\* db.refresh raises.  A row the session loaded is flushed; the unique email
\* makes the commit of a second row with the email raise IntegrityError.
ProfileCommit(i) ==
    /\ req[i].op = "update_current_user_profile" /\ req[i].pc = "run"
    /\ LET u == req[i].user
           rows == [users EXCEPT ![u] = ProfileRow(users[u], req[i].body, req[i].set_email)]
       IN  IF req[i].cached \/ ~UniqueEmail(rows)
           THEN /\ users' = users
                /\ Finish(i, [req[i] EXCEPT !.pc = "done", !.code = 500])
           ELSE /\ users' = rows
                /\ Finish(i, [req[i] EXCEPT !.pc = "done", !.code = 200])
    /\ UNCHANGED <<products, batches, tags, scans, batchSeq, chain, contract, resets, user_cache>>

\* current_user.role, of the row get_current_user returned
RoleOfCurrentUser(token) == CurrentUser(token).role

\* role_update.role in ["manufacturer", "admin"]
ValidRole(role) == role \in {"manufacturer", "admin"}

\* PUT /users/{id}/role
update_user_role(i, token, id, role) ==
    /\ StartOk(i)
    /\ UNCHANGED <<products, batches, tags, scans, batchSeq, chain, contract, resets>>
    /\ user_cache' = CacheAfter(token)
    /\ LET call == [Done("update_user_role", 200) EXCEPT
                        !.user = token, !.sel = {id},
                        !.body = [NoBody EXCEPT !.role = role]]
       IN  IF get_current_user(token) # 200
           THEN Respond(i, Done("update_user_role", 401)) /\ users' = users
           ELSE IF RoleOfCurrentUser(token) # "admin"
           THEN Respond(i, [call EXCEPT !.code = 403]) /\ users' = users
           ELSE IF ~ValidRole(role)
           THEN Respond(i, [call EXCEPT !.code = 400]) /\ users' = users
           ELSE IF id \notin DOMAIN users
           THEN Respond(i, [call EXCEPT !.code = 404]) /\ users' = users
           ELSE /\ users' = [users EXCEPT ![id].role = role]
                /\ Respond(i, call)

\* an entry's expire time passes (or the entry is evicted)
CacheExpire(token) ==
    /\ token \in DOMAIN user_cache
    /\ user_cache' = [t \in DOMAIN user_cache \ {token} |-> user_cache[t]]
    /\ UNCHANGED <<store, batchSeq, chain, contract, req, resets>>

(* ------------------------------ products ------------------------------ *)
ImageTypes == {"image/png", "image/jpeg"}

\* f"/static/{uuid.uuid4()}.{ext}": a file name no product has had
NewImageUrl ==
    IF products = <<>> THEN 1
    ELSE 1 + (CHOOSE m \in {products[k].image_url : k \in DOMAIN products} :
                  \A k \in DOMAIN products : products[k].image_url <= m)

\* POST /products/
create_product(i, token, name, image) ==
    /\ StartOk(i)
    /\ UNCHANGED <<users, batches, tags, scans, batchSeq, chain, contract, resets, user_cache>>
    /\ LET call == [Idle EXCEPT !.op = "create_product", !.pc = "done", !.user = token]
       IN  IF get_current_user(token) # 200
           THEN Respond(i, Done("create_product", 401)) /\ UNCHANGED products
           ELSE IF CurrentUser(token).role # "manufacturer"
           THEN Respond(i, Done("create_product", 403)) /\ UNCHANGED products
           ELSE IF image \notin ImageTypes
           THEN Respond(i, [call EXCEPT !.code = 400]) /\ UNCHANGED products
           ELSE /\ products' = Append(products, Product(token, name, NewImageUrl, "active"))
                /\ Respond(i, [call EXCEPT !.code = 200, !.product_id = Len(products) + 1])

\* PUT /products/{id}
update_product(i, token, id, name, image) ==
    /\ StartOk(i)
    /\ UNCHANGED <<users, batches, tags, scans, batchSeq, chain, contract, resets, user_cache>>
    /\ LET call == [Idle EXCEPT !.op = "update_product", !.pc = "done", !.user = token,
                                !.product_id = id]
       IN  IF get_current_user(token) # 200
           THEN Respond(i, Done("update_product", 401)) /\ UNCHANGED products
           ELSE IF CurrentUser(token).role # "manufacturer"
           THEN Respond(i, Done("update_product", 403)) /\ UNCHANGED products
           ELSE IF ~OwnedProduct(id, token)
           THEN Respond(i, [call EXCEPT !.code = 404]) /\ UNCHANGED products
           ELSE IF image # NotSent /\ image \notin ImageTypes
           THEN Respond(i, [call EXCEPT !.code = 400]) /\ UNCHANGED products
           ELSE /\ products' = [products EXCEPT ![id] = [@ EXCEPT
                        !.image_url = IF image # NotSent THEN NewImageUrl ELSE @,
                        !.name = IF name # NotSent THEN name ELSE @]]
                /\ Respond(i, [call EXCEPT !.code = 200])

\* a delete that removes the row
HardDelete(rows, id) == [k \in 1..(Len(rows) - 1) |-> IF k < id THEN rows[k] ELSE rows[k + 1]]

\* product.status = "inactive"
SoftDelete(rows, id) == [rows EXCEPT ![id].status = "inactive"]

\* DELETE /products/{id}: the row stays, with status inactive
delete_product(i, token, id) ==
    /\ StartOk(i)
    /\ UNCHANGED <<users, batches, tags, scans, batchSeq, chain, contract, resets, user_cache>>
    /\ LET call == [Idle EXCEPT !.op = "delete_product", !.pc = "done", !.user = token,
                                !.product_id = id]
       IN  IF get_current_user(token) # 200
           THEN Respond(i, Done("delete_product", 401)) /\ UNCHANGED products
           ELSE IF CurrentUser(token).role # "manufacturer"
           THEN Respond(i, Done("delete_product", 403)) /\ UNCHANGED products
           ELSE IF ~OwnedProduct(id, token)
           THEN Respond(i, [call EXCEPT !.code = 404]) /\ UNCHANGED products
           ELSE /\ products' = SoftDelete(products, id)
                /\ Respond(i, [call EXCEPT !.code = 204])

\* select(Product).where(manufacturer_id == current_user.id), and
\* .where(Product.status == status) only `if status:`
ListQuery(token, status) ==
    {k \in DOMAIN products :
        /\ products[k].manufacturer_id = token
        /\ status # NotSent => products[k].status = status}

\* GET /products/.  The parameter `status` hides fastapi's status module in
\* the handler, so the line raising the 403 raises AttributeError instead.
list_products(i, token, status) ==
    /\ StartOk(i)
    /\ UNCHANGED <<users, products, batches, tags, scans, batchSeq, chain, contract, resets, user_cache>>
    /\ LET call == [Idle EXCEPT !.op = "list_products", !.pc = "done", !.user = token,
                                !.filter = status]
       IN  IF get_current_user(token) # 200 THEN Respond(i, Done("list_products", 401))
           ELSE IF CurrentUser(token).role # "manufacturer" THEN Respond(i, [call EXCEPT !.code = 500])
           ELSE Respond(i, [call EXCEPT !.code = 200, !.listed = ListQuery(token, status)])

\* GET /products/{id}
get_product(i, token, id) ==
    /\ StartOk(i)
    /\ UNCHANGED <<users, products, batches, tags, scans, batchSeq, chain, contract, resets, user_cache>>
    /\ LET call == [Idle EXCEPT !.op = "get_product", !.pc = "done", !.user = token,
                                !.product_id = id]
       IN  IF get_current_user(token) # 200 THEN Respond(i, Done("get_product", 401))
           ELSE IF CurrentUser(token).role # "manufacturer" THEN Respond(i, Done("get_product", 403))
           ELSE IF ~OwnedProduct(id, token) THEN Respond(i, [call EXCEPT !.code = 404])
           ELSE Respond(i, [call EXCEPT !.code = 200, !.listed = {id},
                                        !.status = products[id].status])

Init ==
    /\ users = SeededUsers
    /\ products = SeededProducts
    /\ batches = {}
    /\ tags = <<>>
    /\ scans = <<>>
    /\ batchSeq = 0
    /\ chain = [txs |-> 0, codes |-> {}, last |-> NoCall]
    /\ contract \in BOOLEAN
    /\ req = [i \in Req |-> Idle]
    /\ password_reset_tokens = {}
    /\ tokenSeq = 0
    /\ now = 0
    /\ user_cache = <<>>

\* for the specifications none of whose handlers reads `contract`
InitContract == Init /\ contract = TRUE

(* --------------------------- request inputs --------------------------- *)
Tokens == 0..Len(users)
Admins == {u \in DOMAIN users : users[u].role = "admin"}
Counts == (-1)..MaxCount
MintTypes == {"warehouse", "direct"}
ProductIds == 0..(Len(products) + 1)
ExtOutcomes == {"ok", "raise"}
TagCodes == 1..(MaxTags + 1)
OnChain == {"owner_ok", "owner_mismatch", "logic_error", "fault"}

\* room for one more mint of `count` tags within the bounds
MintRoom(count) == batchSeq < MaxBatchSeq /\ Len(tags) + Max(count, 0) <= MaxTags

\* room for one more Scan row, counting the ones running requests will append
ScanRoom ==
    Len(scans) + Cardinality({j \in Req : req[j].op = "verify_public" /\ req[j].pc = "run"})
        < MaxScans

(***************************************************************************)
(* Spec: the tag pool under concurrent assignment requests.  The pool is  *)
(* filled by warehouse mints that succeed.                                *)
(***************************************************************************)
FillPool ==
    \E i \in Req, token \in Admins, count \in 1..MaxCount :
        /\ MintRoom(count)
        /\ mint_warehouse_tags(i, token, "warehouse", count, "ok",
                               FreshList(count, SeenCodes), FreshList(count, SeenTokens))

Assign ==
    \E i \in Req, token \in Tokens, product_id \in ProductIds, count \in Counts :
        \E picked \in SelectUnused(count) :
            AssignSelect(i, token, product_id, count, picked)

AssignCommit == \E i \in Req : AssignUpdate(i)

Next ==
    \/ FillPool
    \/ Assign
    \/ AssignCommit

Spec == InitContract /\ [][Next]_vars

(* ------------------------- steps of a request ------------------------- *)
\* this step is the first step of a request in slot i
Starts(i, op) == req[i].pc # "run" /\ req'[i].op = op /\ req'[i] # req[i]
\* this step is the last step of a two-step request in slot i
Ends(i, op) == req[i].op = op /\ req[i].pc = "run" /\ req'[i].pc = "done"

CodesOf(S) == {tags[k].tag_code : k \in S}

(* C1: an assignment never takes more tags than are unused when it selects:
   a request that passed the role and ownership checks with count n >= 0
   fails with 400 and changes no tag when fewer than n tags are unused, and
   otherwise selects exactly n tags, all unused; its update changes no tag
   outside that selection. *)
C1_AssignAllOrNothing ==
    [][\A i \in Req :
        /\ (Starts(i, "assign") /\ req'[i].code \notin {401, 403, 404} /\ req'[i].count >= 0) =>
              LET n == req'[i].count
                  avail == Cardinality(UnusedTags)
              IN  /\ tags' = tags
                  /\ avail < n => req'[i].pc = "done" /\ req'[i].code = 400
                  /\ avail >= n => /\ req'[i].pc = "run"
                                   /\ Cardinality(req'[i].sel) = n
                                   /\ req'[i].sel \subseteq CodesOf(UnusedTags)
        /\ Ends(i, "assign") =>
              /\ req'[i].code = 200
              /\ Cardinality(req'[i].sel) = req[i].count
              /\ DOMAIN tags' = DOMAIN tags
              /\ \A k \in DOMAIN tags :
                    tags[k].tag_code \notin req[i].sel => tags'[k] = tags[k]
      ]_vars

\* a request for 2 tags refused while 1 tag is unused, which stays unused
C1_Witness ==
    \E i \in Req :
        /\ req[i].op = "assign" /\ req[i].pc = "done" /\ req[i].code = 400
        /\ req[i].count = 2
        /\ Cardinality(UnusedTags) = 1
        /\ \A k \in UnusedTags : tags[k].product_id = None

(* C2: the pool draw is not safe under concurrent assignment: the update
   links every selected tag to the request's product and the request reports
   every selected code with 200, whatever happened to the tag since the
   select, so that (witness) two manufacturers' requests both report the same
   tag and the tag is linked to one product only. *)
C2_UpdateIgnoresInterveningAssignment ==
    [][\A i \in Req :
        Ends(i, "assign") =>
            /\ req'[i].code = 200
            /\ req'[i].sel = req[i].sel
            /\ \A k \in DOMAIN tags :
                  tags[k].tag_code \in req[i].sel =>
                      /\ tags'[k].status = "active"
                      /\ tags'[k].product_id = req[i].product_id
      ]_vars

C2_Witness ==
    \E i, j \in Req :
        /\ i # j
        /\ req[i].op = "assign" /\ req[i].pc = "done" /\ req[i].code = 200
        /\ req[j].op = "assign" /\ req[j].pc = "done" /\ req[j].code = 200
        /\ req[i].user # req[j].user
        /\ req[i].product_id # req[j].product_id
        /\ \E k \in DOMAIN tags :
              /\ tags[k].tag_code \in req[i].sel \cap req[j].sel
              /\ tags[k].status = "active"
              /\ tags[k].product_id = req[j].product_id
              /\ tags[k].product_id # req[i].product_id

(***************************************************************************)
(* MintSpec: the three minting entry points with any caller, any count    *)
(* and any uuid draws (collisions included), and assignments run one at a *)
(* time.                                                                   *)
(***************************************************************************)
MintWarehouse ==
    \E token \in Tokens, mint_type \in MintTypes, count \in Counts, ext \in ExtOutcomes :
        /\ MintRoom(count)
        /\ \E codes \in UuidList(count, SeenCodes), toks \in UuidList(count, SeenTokens) :
               mint_warehouse_tags(1, token, mint_type, count, ext, codes, toks)

MintDirect ==
    \E token \in Tokens, mint_type \in MintTypes, product_id \in ProductIds,
       count \in Counts, ext \in ExtOutcomes :
        /\ MintRoom(count)
        /\ \E codes \in UuidList(count, SeenCodes), toks \in UuidList(count, SeenTokens) :
               mint_direct_tags(1, token, mint_type, product_id, count, ext, codes, toks)

BulkMint ==
    \E count \in Counts, manufacturer_id \in {1, Len(users) + 1}, ext \in ExtOutcomes :
        /\ MintRoom(count)
        /\ \E codes \in UuidList(count, SeenCodes), toks \in UuidList(count, SeenTokens) :
               bulk_mint_and_store(1, count, manufacturer_id, ext, codes, toks)

MintAssign ==
    \E token \in DOMAIN users, product_id \in DOMAIN products, count \in 1..MaxCount :
        \E picked \in SelectUnused(count) :
            AssignSelect(1, token, product_id, count, picked)

MintAssignCommit == AssignUpdate(1)

MintNext ==
    \/ MintWarehouse
    \/ MintDirect
    \/ BulkMint
    \/ MintAssign
    \/ MintAssignCommit

MintSpec == InitContract /\ [][MintNext]_vars

TagsOfBatch(id) == {k \in DOMAIN tags : tags[k].batch_id = id}

(* C3: for every batch of the store, exactly `count` Tag rows carry its id
   if and only if its status is minted, and no Tag row carries the id of a
   failed batch. *)
C3_TagRowsIffMinted ==
    \A b \in batches :
        /\ (Cardinality(TagsOfBatch(b.id)) = b.count) <=> (b.status = "minted")
        /\ b.status = "failed" => TagsOfBatch(b.id) = {}

(* C4: when the external mint call raised in mint_warehouse_tags or
   mint_direct_tags (the request ended with 500 and no transaction hash),
   the store holds the request's batch with status failed and no tags. *)
C4_FailedBatchStored ==
    \A i \in Req :
        (/\ req[i].pc = "done"
         /\ req[i].op \in {"mint_warehouse", "mint_direct"}
         /\ req[i].code = 500
         /\ req[i].batch.status = "failed"
         /\ req[i].batch.tx = None)
        => /\ \E b \in batches : b.id = req[i].batch.id /\ b.status = "failed"
           /\ TagsOfBatch(req[i].batch.id) = {}

(* C8: in every reachable state tag_code is unique and token_id is unique
   across the tags, every unused tag has no product and every active tag
   has one. *)
C8_TagInvariants ==
    /\ \A a, b \in DOMAIN tags :
          a # b => tags[a].tag_code # tags[b].tag_code /\ tags[a].token_id # tags[b].token_id
    /\ \A k \in DOMAIN tags :
          /\ tags[k].status = "unused" => tags[k].product_id = None
          /\ tags[k].status = "active" => tags[k].product_id \in DOMAIN products

\* a mint whose commit the unique constraints refused, in a store that holds
\* an unused tag, a tag activated by an assignment and a direct-minted tag
C8_Witness ==
    /\ \E i \in Req :
          /\ req[i].pc = "done" /\ req[i].code = 500
          /\ req[i].batch.status = "failed" /\ req[i].batch.tx # None
    /\ \E k \in DOMAIN tags : tags[k].status = "unused"
    /\ \E k \in DOMAIN tags, b \in batches :
          /\ tags[k].status = "active" /\ b.id = tags[k].batch_id
          /\ b.mint_type = "warehouse"

(***************************************************************************)
(* VerifySpec: both verification endpoints, with public verifications     *)
(* running concurrently, over a pool filled once and assigned by the      *)
(* products' owners.                                                      *)
(***************************************************************************)
NoneRunning == \A j \in Req : req[j].pc # "run"
OnlyPublicVerifyRunning == \A j \in Req : req[j].pc = "run" => req[j].op = "verify_public"

VFillPool ==
    \E token \in Admins, count \in 1..MaxCount :
        /\ NoneRunning /\ tags = <<>> /\ MintRoom(count)
        /\ mint_warehouse_tags(1, token, "warehouse", count, "ok",
                               FreshList(count, SeenCodes), FreshList(count, SeenTokens))

VAssign ==
    \E token \in DOMAIN users, product_id \in DOMAIN products, count \in 1..MaxCount :
        /\ NoneRunning /\ OwnedProduct(product_id, token)
        /\ \E picked \in SelectUnused(count) :
               AssignSelect(1, token, product_id, count, picked)

VAssignCommit == AssignUpdate(1)

VerifyPublic ==
    \E i \in Req, tag_code \in TagCodes :
        /\ OnlyPublicVerifyRunning /\ ScanRoom
        /\ PublicVerifyRead(i, tag_code)

VerifyPublicCommit == \E i \in Req : PublicVerifyCommit(i)

VerifyTags ==
    \E i \in Req, tag_code \in TagCodes, onchain \in OnChain :
        /\ OnlyPublicVerifyRunning /\ ScanRoom
        /\ verify_tag(i, tag_code, onchain)

VerifyNext ==
    \/ VFillPool
    \/ VAssign
    \/ VAssignCommit
    \/ VerifyPublic
    \/ VerifyPublicCommit
    \/ VerifyTags

VerifySpec == Init /\ [][VerifyNext]_vars

(* C5: every call of either verification endpoint for a tag code that     *)
(* exists appends exactly one Scan row, of that tag, whatever the result  *)
(* and whether the response is a 200 or a 500; a call for a code no tag   *)
(* has answers 404 and appends nothing; nothing else writes Scan rows.    *)
TagExists(tag_code) == \E k \in DOMAIN tags : tags[k].tag_code = tag_code

OneScanAppended(tag_code) ==
    /\ Len(scans') = Len(scans) + 1
    /\ SubSeq(scans', 1, Len(scans)) = scans
    /\ scans'[Len(scans')].tag_id \in DOMAIN tags
    /\ tags[scans'[Len(scans')].tag_id].tag_code = tag_code

C5_OneScanPerVerification ==
    [][ /\ \A i \in Req :
            /\ Starts(i, "verify_tags") =>
                   IF TagExists(req'[i].tag_code)
                   THEN req'[i].code \in {200, 500} /\ OneScanAppended(req'[i].tag_code)
                   ELSE req'[i].code = 404 /\ scans' = scans
            /\ Starts(i, "verify_public") =>
                   /\ scans' = scans
                   /\ IF TagExists(req'[i].tag_code)
                      THEN req'[i].pc = "run"
                      ELSE req'[i].pc = "done" /\ req'[i].code = 404
            /\ Ends(i, "verify_public") =>
                   req'[i].code \in {200, 500} /\ OneScanAppended(req[i].tag_code)
        /\ scans' # scans =>
               \E i \in Req :
                   /\ req'[i].pc = "done" /\ req'[i].code \in {200, 500}
                   /\ \/ req'[i].op = "verify_tags" /\ req[i].pc # "run"
                      \/ Ends(i, "verify_public")
                   /\ OneScanAppended(req'[i].tag_code)
      ]_vars

\* both endpoints have answered 500 for a tag code that exists, and each
\* call left its Scan row; a call for an unknown code has left none
C5_Witness ==
    /\ Len(scans) = 2
    /\ \E i, j \in Req :
          /\ req[i].op = "verify_tags" /\ req[i].pc = "done" /\ req[i].code = 500
          /\ req[j].op = "verify_public" /\ req[j].pc = "done" /\ req[j].code = 500
          /\ scans[1].tag_id = req[i].tag.id
          /\ scans[2].tag_id = req[j].tag.id

(* C6: in the public variant, the Scan row recorded for an active tag is  *)
(* valid when it is the first Scan row of the tag and duplicate when the  *)
(* tag already has one; the row recorded for a tag that is not active is  *)
(* invalid.                                                               *)
HasScan(tag_id) == \E k \in DOMAIN scans : scans[k].tag_id = tag_id

C6_FirstValidThenDuplicate ==
    [][ \A i \in Req :
            Ends(i, "verify_public") =>
                LET t == req[i].tag.id
                    recorded == scans'[Len(scans')].verification_result
                IN  /\ (tags[t].status = "active" /\ ~HasScan(t)) => recorded = "valid"
                    /\ (tags[t].status = "active" /\ HasScan(t)) => recorded = "duplicate"
                    /\ tags[t].status # "active" => recorded = "invalid"
      ]_vars

\* the same rule, relative to the rows the request's own SELECT returned
C6_RuleOnRowsRead ==
    [][ \A i \in Req :
            Ends(i, "verify_public") =>
                LET t == req[i].tag.id
                    recorded == scans'[Len(scans')].verification_result
                IN  /\ tags[t].status = req[i].tag.status
                    /\ (tags[t].status = "active" /\ ~req[i].existing_scan) => recorded = "valid"
                    /\ (tags[t].status = "active" /\ req[i].existing_scan) => recorded = "duplicate"
                    /\ tags[t].status # "active" => recorded = "invalid"
      ]_vars

(* C26: the public endpoint counts any Scan row of the tag as a prior     *)
(* scan.  A public verification that starts when the tag has a Scan row,  *)
(* whatever its result and whichever endpoint wrote it, has read one; and *)
(* a public verification of an active tag that has read one records       *)
(* duplicate, never valid.                                                *)
C26_AnyScanMakesDuplicate ==
    [][\A i \in Req :
        /\ (Starts(i, "verify_public") /\ req'[i].pc = "run" /\ HasScan(req'[i].tag.id))
           => req'[i].existing_scan
        /\ (Ends(i, "verify_public") /\ req[i].existing_scan /\ req[i].tag.status = "active")
           => /\ scans'[Len(scans')].tag_id = req[i].tag.id
              /\ scans'[Len(scans')].verification_result = "duplicate"
              /\ req'[i].result = "duplicate"]_vars

\* a tag scanned while unused (recorded invalid), then assigned, was
\* recorded duplicate by its first public scan as an active tag
C26_Witness ==
    \E i \in Req :
        /\ req[i].op = "verify_public" /\ req[i].pc = "done" /\ req[i].result = "duplicate"
        /\ Len(scans) = 2
        /\ scans[1].tag_id = req[i].tag.id /\ scans[1].verification_result = "invalid"
        /\ scans[2].tag_id = req[i].tag.id /\ scans[2].verification_result = "duplicate"
        /\ tags[req[i].tag.id].status = "active"

(* C27: an active tag never has two Scan rows with result valid written   *)
(* by the public endpoint: no two public verifications of one tag have    *)
(* both recorded valid, also when they ran concurrently.                  *)
C27_AtMostOneValidPublicScan ==
    \A i, j \in Req :
        (/\ i # j
         /\ req[i].op = "verify_public" /\ req[i].pc = "done"
         /\ req[j].op = "verify_public" /\ req[j].pc = "done"
         /\ req[i].tag.id = req[j].tag.id)
        => ~(req[i].result = "valid" /\ req[j].result = "valid")

\* public verifications that do not overlap: one that starts when the tag has
\* a valid Scan row does not record valid
C27_NoSecondValidAfterCommit ==
    [][\A i \in Req :
        (/\ Ends(i, "verify_public")
         /\ scans'[Len(scans')].verification_result = "valid")
        => ~req[i].existing_scan /\ req[i].tag.status = "active"]_vars

(* C28: a verification, through either endpoint, of an existing tag that  *)
(* has no product appends one Scan row with result invalid and then       *)
(* answers 500; no step removes or rewrites a Scan row, so the row stays. *)
C28_ScanThenFailWithoutProduct ==
    [][/\ \A i \in Req :
            /\ (/\ Starts(i, "verify_tags") /\ TagExists(req'[i].tag_code)
                /\ tags[TagByCode(req'[i].tag_code)].product_id = None)
               => /\ OneScanAppended(req'[i].tag_code)
                  /\ scans'[Len(scans')].verification_result = "invalid"
                  /\ req'[i].pc = "done" /\ req'[i].code = 500
            /\ (Ends(i, "verify_public") /\ req[i].tag.product_id = None)
               => /\ OneScanAppended(req[i].tag_code)
                  /\ scans'[Len(scans')].verification_result = "invalid"
                  /\ req'[i].code = 500
       /\ Len(scans') >= Len(scans) /\ SubSeq(scans', 1, Len(scans)) = scans]_vars

\* both endpoints have recorded invalid for an unused tag and answered 500
C28_Witness ==
    \E i, j \in Req :
        /\ req[i].op = "verify_tags" /\ req[i].pc = "done" /\ req[i].code = 500
        /\ req[j].op = "verify_public" /\ req[j].pc = "done" /\ req[j].code = 500
        /\ req[i].tag.product_id = None /\ req[j].tag.product_id = None
        /\ tags[req[i].tag.id].status = "unused" /\ tags[req[j].tag.id].status = "unused"
        /\ Len(scans) = 2
        /\ \A k \in DOMAIN scans : scans[k].verification_result = "invalid"
        /\ {scans[k].tag_id : k \in DOMAIN scans} = {req[i].tag.id, req[j].tag.id}

(* C29: with the contract available, /tags/verify of an active tag whose  *)
(* on-chain owner is the admin wallet records and computes valid.         *)
C29_ActiveTagOwnedByAdminIsValid ==
    [][\A i \in Req :
        (/\ Starts(i, "verify_tags") /\ contract
         /\ TagExists(req'[i].tag_code)
         /\ tags[TagByCode(req'[i].tag_code)].status = "active"
         /\ req'[i].onchain = "owner_ok")
        => /\ req'[i].result = "valid"
           /\ scans'[Len(scans')].verification_result = "valid"]_vars

\* what such a request records instead
C29_ActiveTagGetsBlockchainError ==
    [][\A i \in Req :
        (/\ Starts(i, "verify_tags") /\ contract
         /\ TagExists(req'[i].tag_code)
         /\ tags[TagByCode(req'[i].tag_code)].status = "active")
        => /\ ~IntParses(tags[TagByCode(req'[i].tag_code)].token_id)
           /\ req'[i].result = "blockchain_error"
           /\ scans'[Len(scans')].verification_result = "blockchain_error"]_vars

(***************************************************************************)
(* CatalogSpec: the product catalogue and the assignment of pool tags,    *)
(* one request at a time, called with every token and every product id.   *)
(***************************************************************************)
ProductNames == {NotSent, "N"}
ImageInputs == {NotSent, "image/png", "image/gif"}

CatFillPool ==
    \E token \in Admins, count \in 1..MaxCount :
        /\ NoneRunning /\ tags = <<>> /\ MintRoom(count)
        /\ mint_warehouse_tags(1, token, "warehouse", count, "ok",
                               FreshList(count, SeenCodes), FreshList(count, SeenTokens))

CatUpdate ==
    \E token \in Tokens, id \in ProductIds, name \in ProductNames, image \in ImageInputs :
        /\ NoneRunning /\ (image \in ImageTypes => NewImageUrl <= MaxImage)
        /\ update_product(1, token, id, name, image)

CatDelete ==
    \E token \in Tokens, id \in ProductIds :
        /\ NoneRunning
        /\ delete_product(1, token, id)

CatAssign ==
    \E token \in Tokens, product_id \in ProductIds, count \in 1..MaxCount :
        /\ NoneRunning
        /\ \E picked \in SelectUnused(count) :
               AssignSelect(1, token, product_id, count, picked)

CatAssignCommit == AssignUpdate(1)

StatusFilters == {NotSent, "active", "inactive"}

CatList ==
    \E token \in Tokens, status \in StatusFilters :
        /\ NoneRunning
        /\ list_products(1, token, status)

CatGet ==
    \E token \in Tokens, id \in ProductIds :
        /\ NoneRunning
        /\ get_product(1, token, id)

CatalogNext ==
    \/ CatFillPool
    \/ CatUpdate
    \/ CatDelete
    \/ CatAssign
    \/ CatAssignCommit
    \/ CatList
    \/ CatGet

CatalogSpec == InitContract /\ [][CatalogNext]_vars

(* C9: update_product, delete_product and assign_tags_to_product, called  *)
(* by a manufacturer for a product that is not theirs, answer 404 whether *)
(* the product is another manufacturer's or does not exist, and change no *)
(* Product and no Tag row.                                                *)
ProductMutations == {"update_product", "delete_product", "assign"}

IsManufacturer(u) == u \in DOMAIN users /\ users[u].role = "manufacturer"

C9_NonOwnerGetsNotFound ==
    [][ \A i \in Req :
            (/\ \E op \in ProductMutations : Starts(i, op)
             /\ IsManufacturer(req'[i].user)
             /\ \/ req'[i].product_id \notin DOMAIN products
                \/ products[req'[i].product_id].manufacturer_id # req'[i].user)
            => /\ req'[i].pc = "done" /\ req'[i].code = 404
               /\ products' = products
               /\ tags' = tags
      ]_vars

\* a manufacturer has called one of the three for another manufacturer's
\* product, with unused tags in the pool, and got 404
C9_Witness ==
    \E i \in Req :
        /\ req[i].op \in ProductMutations /\ req[i].pc = "done" /\ req[i].code = 404
        /\ IsManufacturer(req[i].user)
        /\ req[i].product_id \in DOMAIN products
        /\ products[req[i].product_id].manufacturer_id # req[i].user
        /\ products[req[i].product_id].status = "active"
        /\ UnusedTags # {}

(***************************************************************************)
(* AuthSpec: concurrent registrations.                                    *)
(***************************************************************************)
Emails == {"a@m", "c@m", "d@m"}
Passwords == {"pw", "pw2"}
Names == {NotSent, "C"}
Roles == {"manufacturer", "admin"}

Registering == {j \in Req : req[j].op = "register" /\ req[j].pc = "run"}

Register ==
    \E i \in Req, email \in Emails, password \in Passwords, name \in Names, role \in Roles :
        /\ Len(users) + Cardinality(Registering) < MaxUsers
        /\ RegisterCheck(i, email, password, name, role)

RegisterInsert == \E i \in Req : RegisterCommit(i)

AuthNext ==
    \/ Register
    \/ RegisterInsert

AuthSpec == InitContract /\ [][AuthNext]_vars

(* C10: a registration whose email a user already has answers 400 "Email  *)
(* already registered" and leaves the users table as it was: no row       *)
(* added, no row's password, role or name changed.                        *)
C10_DuplicateEmailRejected ==
    [][ \A i \in Req :
            (/\ Starts(i, "register")
             /\ \E u \in DOMAIN users : users[u].email = req'[i].body.email)
            => /\ req'[i].pc = "done" /\ req'[i].code = 400
               /\ users' = users
      ]_vars

\* a registration with a registered user's email and another password and
\* name has been refused
C10_Witness ==
    \E i \in Req, u \in DOMAIN users :
        /\ req[i].op = "register" /\ req[i].pc = "done" /\ req[i].code = 400
        /\ users[u].email = req[i].body.email
        /\ users[u].password # hash_password(req[i].body.password)
        /\ users[u].name # req[i].body.name

(***************************************************************************)
(* UsersSpec: registrations and profile updates running concurrently,     *)
(* with the cache of get_current_user.                                    *)
(***************************************************************************)
MaxProfiles == 4

ProfileEmails == {NotSent, "a@m", "c@m"}
\* the callers: the two seeded manufacturers
ProfileTokens == {2, 3}
\* the entries the cache has room for
MaxCached == 1
CacheRoom(token) == Cardinality(DOMAIN CacheAfter(token)) <= MaxCached

UsersRegister ==
    \E i \in Req :
        /\ Len(users) + Cardinality(Registering) < MaxProfiles
        /\ RegisterCheck(i, "c@m", "pw", NotSent, "manufacturer")

UsersRegisterInsert == \E i \in Req : RegisterCommit(i)

GetMe ==
    \E i \in Req, token \in ProfileTokens :
        CacheRoom(token) /\ get_current_user_profile(i, token)

UpdateProfile ==
    \E i \in Req, token \in ProfileTokens, email \in ProfileEmails, name \in Names :
        CacheRoom(token) /\ ProfileCheck(i, token, email, name)

UpdateProfileCommit == \E i \in Req : ProfileCommit(i)

Expire == \E token \in DOMAIN user_cache : CacheExpire(token)

UsersNext ==
    \/ UsersRegister
    \/ UsersRegisterInsert
    \/ GetMe
    \/ UpdateProfile
    \/ UpdateProfileCommit
    \/ Expire

UsersSpec == InitContract /\ [][UsersNext]_vars

\* the email of the request starting in slot i belongs to a user other than the caller
EmailHeldByAnother(i) ==
    /\ req'[i].user \in DOMAIN users
    /\ req'[i].body.email # NotSent
    /\ \E v \in DOMAIN users : v # req'[i].user /\ users[v].email = req'[i].body.email

(* C23: no two users ever share an email, whatever the interleaving of    *)
(* registrations and profile updates; and a profile update to an email    *)
(* another user holds answers 400 and leaves the users table as it was.   *)
C23_EmailsUnique ==
    /\ [](UniqueEmail(users))
    /\ [][\A i \in Req :
            (Starts(i, "update_current_user_profile") /\ EmailHeldByAnother(i))
            => /\ req'[i].pc = "done" /\ req'[i].code = 400
               /\ users' = users]_vars

\* the two halves on their own: the invariant, and the 400 for a caller
\* whose row the cache does not hold
C23_UniqueEmailInvariant == UniqueEmail(users)

C23_TakenEmailRefusedUncached ==
    [][\A i \in Req :
        (/\ Starts(i, "update_current_user_profile") /\ EmailHeldByAnother(i)
         /\ req'[i].user \notin DOMAIN user_cache)
        => /\ req'[i].pc = "done" /\ req'[i].code = 400
           /\ users' = users]_vars

(***************************************************************************)
(* RoleSpec: role updates, with the cache of get_current_user.            *)
(***************************************************************************)
RoleInputs == {"manufacturer", "admin", "owner"}
UserIds == 1..(Len(users) + 1)

RoleGetMe ==
    \E i \in Req, token \in Tokens : get_current_user_profile(i, token)

UpdateRole ==
    \E i \in Req, token \in Tokens, id \in UserIds, role \in RoleInputs :
        update_user_role(i, token, id, role)

RoleExpire == \E token \in DOMAIN user_cache : CacheExpire(token)

RoleNext ==
    \/ RoleGetMe
    \/ UpdateRole
    \/ RoleExpire

RoleSpec == InitContract /\ [][RoleNext]_vars

RolesUnchanged == \A u \in DOMAIN users : users'[u].role = users[u].role
RoleEnum == \A u \in DOMAIN users : users[u].role \in {"manufacturer", "admin"}

(* C24: a role update by a caller whose role is not admin answers 403; by *)
(* an admin with a role that is neither manufacturer nor admin it answers *)
(* 400; in both cases no user's role changes; and every user's role is    *)
(* manufacturer or admin in every reachable state.                        *)
C24_RoleChangesAdminOnly ==
    /\ [](RoleEnum)
    /\ [][\A i \in Req :
            (Starts(i, "update_user_role") /\ req'[i].user \in DOMAIN users)
            => /\ users[req'[i].user].role # "admin"
                  => req'[i].code = 403 /\ RolesUnchanged
               /\ (/\ users[req'[i].user].role = "admin"
                   /\ req'[i].body.role \notin {"manufacturer", "admin"})
                  => req'[i].code = 400 /\ RolesUnchanged]_vars

\* the same with the caller's role read where the handler reads it, from the
\* row get_current_user returned
C24_RoleChangesByResolvedAdminOnly ==
    /\ [](RoleEnum)
    /\ [][\A i \in Req :
            (Starts(i, "update_user_role") /\ req'[i].user \in DOMAIN users)
            => /\ RoleOfCurrentUser(req'[i].user) # "admin"
                  => req'[i].code = 403 /\ RolesUnchanged
               /\ (/\ RoleOfCurrentUser(req'[i].user) = "admin"
                   /\ req'[i].body.role \notin {"manufacturer", "admin"})
                  => req'[i].code = 400 /\ RolesUnchanged]_vars

(* C30: while no user has role admin no step gives a user role admin; and *)
(* a step after which a user is admin who was not is a role update        *)
(* answered 200 whose caller is an admin in the users table.              *)
C30_NoAdminWithoutAdmin ==
    [][/\ Admins = {} => Admins' = {}
       /\ Admins' \ Admins # {}
          => \E i \in Req :
                /\ req'[i].op = "update_user_role" /\ req'[i].code = 200
                /\ req'[i].user \in Admins]_vars

(***************************************************************************)
(* ResetSpec: password-reset requests and resets, with the clock running. *)
(***************************************************************************)
MaxResetTokens == 2
MaxNow == 3

ResetEmails == {"a@m", "b@m", "x@m"}
ResetTokenInputs == 1..(MaxResetTokens + 1)

RequestReset ==
    \E i \in Req, email \in ResetEmails :
        /\ tokenSeq < MaxResetTokens
        /\ request_password_reset(i, email)

ResetPassword ==
    \E i \in Req, token \in ResetTokenInputs, new_password \in Passwords :
        ResetRead(i, token, new_password)

ResetPasswordCommit == \E i \in Req : ResetCommit(i)

\* time passes between two steps of the handlers
Tick ==
    /\ now < MaxNow
    /\ now' = now + 1
    /\ UNCHANGED <<store, batchSeq, chain, contract, req, password_reset_tokens, tokenSeq, user_cache>>

ResetNext ==
    \/ RequestReset
    \/ ResetPassword
    \/ ResetPasswordCommit
    \/ Tick

ResetSpec == InitContract /\ [][ResetNext]_vars

\* token was issued and its row is gone: only a reset that answered 200 deletes a row
Consumed(token) == token \in 1..tokenSeq /\ TokenRows(token) = {}

(* C20: a reset token is single-use.  The step in which a reset answers   *)
(* 200 leaves no row with its token in password_reset_tokens; and a reset *)
(* called after that with the same token answers 400 and changes no       *)
(* user's password hash (nor any other row).                              *)
C20_ResetTokenSingleUse ==
    [][\A i \in Req :
        /\ (Ends(i, "reset_password") /\ req'[i].code = 200)
           => \A r \in password_reset_tokens' : r.token # req'[i].token
        /\ (Starts(i, "reset_password") /\ Consumed(req'[i].token))
           => /\ req'[i].pc = "done" /\ req'[i].code = 400
              /\ users' = users
              /\ password_reset_tokens' = password_reset_tokens]_vars

\* a reset with a new password was refused for a token that an earlier reset had used up
C20_Witness ==
    \E i \in Req, u \in DOMAIN users :
        /\ req[i].op = "reset_password" /\ req[i].pc = "done" /\ req[i].code = 400
        /\ Consumed(req[i].token)
        /\ users[u].password = hash_password("pw2")
        /\ req[i].body.password = "pw"

(* C21: a reset with a token no row carries, or whose row's expires_at is  *)
(* earlier than the current time, answers 400 and changes no user's       *)
(* password hash and no token row; a row's expires_at is one hour after   *)
(* its creation, and a reset is accepted only while the current time is   *)
(* not past it.                                                           *)
C21_UnknownOrExpiredTokenRejected ==
    [][/\ \A i \in Req :
            /\ (/\ Starts(i, "reset_password")
                /\ \/ TokenRows(req'[i].token) = {}
                   \/ \E r \in TokenRows(req'[i].token) : r.expires_at < now)
               => /\ req'[i].pc = "done" /\ req'[i].code = 400
                  /\ users' = users
                  /\ password_reset_tokens' = password_reset_tokens
            /\ (Starts(i, "reset_password") /\ req'[i].pc = "run")
               => \E r \in TokenRows(req'[i].token) : now <= r.expires_at
       /\ \A r \in password_reset_tokens' \ password_reset_tokens :
              r.expires_at = now + Hour]_vars

\* a reset was refused for a token whose row is still stored, more than an hour old
C21_Witness ==
    \E i \in Req :
        /\ req[i].op = "reset_password" /\ req[i].pc = "done" /\ req[i].code = 400
        /\ \E r \in TokenRows(req[i].token) : r.expires_at < now
        /\ \A u \in DOMAIN users : users[u] = SeededUsers[u]

(* C22: a reset request is answered 202 with the same detail whether or   *)
(* not a user has the email; it adds one token row, for that user, if and *)
(* only if a user has the email, and changes nothing else; nothing but a  *)
(* reset request for a registered email adds a token row.                 *)
C22_ResetRequestGeneric ==
    [][/\ \A i \in Req :
            Starts(i, "request_password_reset")
            => /\ req'[i].pc = "done" /\ req'[i].code = 202
               /\ req'[i].detail = "If an account exists, a reset link will be sent"
               /\ req'[i] = [Done("request_password_reset", 202) EXCEPT
                                 !.body = req'[i].body, !.detail = req'[i].detail]
               /\ (password_reset_tokens' # password_reset_tokens)
                      <=> EmailRegistered(req'[i].body.email)
               /\ UNCHANGED <<store, batchSeq, chain, contract, now, user_cache>>
       /\ password_reset_tokens' \ password_reset_tokens # {}
          => \E i \in Req, r \in password_reset_tokens' :
                /\ req'[i].op = "request_password_reset" /\ req'[i].pc = "done"
                /\ password_reset_tokens' = password_reset_tokens \cup {r}
                /\ r \notin password_reset_tokens
                /\ r.user_id \in DOMAIN users
                /\ users[r.user_id].email = req'[i].body.email
                /\ UNCHANGED <<store, batchSeq, chain, contract, now, user_cache>>]_vars

\* a request for an email no user has was answered as the earlier request
\* for a registered email was, and only that earlier one left a token
C22_Witness ==
    \E i \in Req :
        /\ req[i].op = "request_password_reset" /\ req[i].pc = "done" /\ req[i].code = 202
        /\ ~EmailRegistered(req[i].body.email)
        /\ req[i].detail = KnownAccountDetail
        /\ Cardinality(password_reset_tokens) = 1
        /\ tokenSeq = 1

(***************************************************************************)
(* NoAdminSpec: the operations on a store in which nobody is admin and    *)
(* the cache is empty.                                                    *)
(***************************************************************************)
NoAdminInit ==
    /\ users = SubSeq(SeededUsers, 2, 3)
    /\ products = <<>>
    /\ batches = {}
    /\ tags = <<>>
    /\ scans = <<>>
    /\ batchSeq = 0
    /\ chain = [txs |-> 0, codes |-> {}, last |-> NoCall]
    /\ contract = TRUE
    /\ req = [i \in Req |-> Idle]
    /\ password_reset_tokens = {}
    /\ tokenSeq = 0
    /\ now = 0
    /\ user_cache = <<>>

NARegister ==
    \E role \in Roles :
        /\ Len(users) < 3
        /\ RegisterCheck(1, "c@m", "pw", NotSent, role)

NARegisterInsert == RegisterCommit(1)

NALogin == \E email \in {"a@m", "x@m"}, password \in Passwords : login_user(1, email, password)

NAGetMe ==
    \E token \in Tokens : CacheRoom(token) /\ get_current_user_profile(1, token)

NAUpdateProfile ==
    \E token \in Tokens, email \in {NotSent, "d@m"}, name \in {NotSent, "admin"} :
        CacheRoom(token) /\ ProfileCheck(1, token, email, name)

NAUpdateProfileCommit == ProfileCommit(1)

NAUpdateRole ==
    \E token \in Tokens, id \in UserIds, role \in RoleInputs :
        CacheRoom(token) /\ update_user_role(1, token, id, role)

NAExpire == \E token \in DOMAIN user_cache : CacheExpire(token)

NARequestReset ==
    \E email \in {"a@m", "x@m"} :
        /\ tokenSeq < MaxResetTokens
        /\ request_password_reset(1, email)

NAResetPassword == \E token \in ResetTokenInputs : ResetRead(1, token, "pw2")

NAResetPasswordCommit == ResetCommit(1)

NACreateProduct ==
    \E token \in Tokens :
        /\ Len(products) < 1
        /\ create_product(1, token, "P", NotSent)

NAMint ==
    \E token \in Tokens, mint_type \in MintTypes :
        mint_warehouse_tags(1, token, mint_type, 1, "ok", <<1>>, <<1>>)

NAVerify == PublicVerifyRead(1, 1)

NoAdminNext ==
    \/ NARegister
    \/ NARegisterInsert
    \/ NALogin
    \/ NAGetMe
    \/ NAUpdateProfile
    \/ NAUpdateProfileCommit
    \/ NAUpdateRole
    \/ NAExpire
    \/ NARequestReset
    \/ NAResetPassword
    \/ NAResetPasswordCommit
    \/ NACreateProduct
    \/ NAMint
    \/ NAVerify

NoAdminSpec == NoAdminInit /\ [][NoAdminNext]_vars

\* from that start nobody ever becomes admin
C30_NoAdminFromFreshStore == Admins = {}

(***************************************************************************)
(* ScenarioSpec: the end-to-end scenario.  A manufacturer registers and   *)
(* creates a product, an admin mints warehouse tags, the manufacturer     *)
(* assigns some of them to the product, and one assigned tag is scanned   *)
(* twice through the public endpoint.  Each request ends before the next  *)
(* starts.                                                                *)
(***************************************************************************)
Scenario == [email |-> "c@m", name |-> "C", product |-> "S", image |-> "image/png",
             minted |-> 5, assigned |-> 3, scanned |-> 2]

\* the ids the database gives the scenario's user and product
ScenarioUser == Len(SeededUsers) + 1
ScenarioProduct == Len(SeededProducts) + 1

SRegister ==
    \E password \in Passwords, role \in Roles :
        /\ NoneRunning /\ ~EmailRegistered(Scenario.email)
        /\ RegisterCheck(1, Scenario.email, password, Scenario.name, role)

SRegisterCommit == RegisterCommit(1)

SCreateProduct ==
    /\ NoneRunning /\ EmailRegistered(Scenario.email)
    /\ Len(products) = Len(SeededProducts)
    /\ create_product(1, ScenarioUser, Scenario.product, Scenario.image)

SMint ==
    \E token \in Admins :
        /\ NoneRunning /\ Len(products) > Len(SeededProducts) /\ tags = <<>>
        /\ mint_warehouse_tags(1, token, "warehouse", Scenario.minted, "ok",
                               FreshList(Scenario.minted, SeenCodes),
                               FreshList(Scenario.minted, SeenTokens))

SAssign ==
    /\ NoneRunning /\ tags # <<>> /\ UnusedTags = DOMAIN tags
    /\ \E picked \in SelectUnused(Scenario.assigned) :
           AssignSelect(1, ScenarioUser, ScenarioProduct, Scenario.assigned, picked)

SAssignCommit == AssignUpdate(1)

\* the first scan is of any assigned tag, the next ones of the same tag
SScan ==
    \E k \in DOMAIN tags :
        /\ NoneRunning /\ tags[k].status = "active" /\ Len(scans) < Scenario.scanned
        /\ scans # <<>> => scans[1].tag_id = k
        /\ PublicVerifyRead(1, tags[k].tag_code)

SScanCommit == PublicVerifyCommit(1)

ScenarioNext ==
    \/ SRegister
    \/ SRegisterCommit
    \/ SCreateProduct
    \/ SMint
    \/ SAssign
    \/ SAssignCommit
    \/ SScan
    \/ SScanCommit

ScenarioSpec == InitContract /\ [][ScenarioNext]_vars

(* C7: in the end-to-end scenario, once the manufacturer's assignment of  *)
(* 3 of the 5 minted tags has answered, exactly 3 tags are active with    *)
(* the product and exactly 2 are unused with no product; the first public *)
(* scan of an assigned tag answers valid and the second answers           *)
(* duplicate.                                                             *)
ScenarioAssignDone == \E k \in DOMAIN tags : tags[k].status # "unused"

PublicScanAnswered == req[1].op = "verify_public" /\ req[1].pc = "done"

C7_EndToEndScenario ==
    /\ ScenarioAssignDone =>
          /\ users[ScenarioUser].email = Scenario.email
          /\ products[ScenarioProduct].manufacturer_id = ScenarioUser
          /\ Len(tags) = Scenario.minted
          /\ Cardinality({k \in DOMAIN tags : /\ tags[k].product_id = ScenarioProduct
                                              /\ tags[k].status = "active"})
                 = Scenario.assigned
          /\ Cardinality({k \in DOMAIN tags : /\ tags[k].product_id = None
                                              /\ tags[k].status = "unused"})
                 = Scenario.minted - Scenario.assigned
    /\ PublicScanAnswered =>
          /\ req[1].code = 200
          /\ req[1].result = IF Len(scans) = 1 THEN "valid" ELSE "duplicate"
          /\ scans[Len(scans)].verification_result = req[1].result

\* the second scan of the assigned tag has answered
C7_Witness ==
    /\ PublicScanAnswered
    /\ Len(scans) = Scenario.scanned
    /\ scans[1].tag_id = scans[2].tag_id
    /\ tags[scans[1].tag_id].product_id = ScenarioProduct
    /\ req[1].result = "duplicate"

(* C11: the row a registration adds has role manufacturer, whatever role  *)
(* the request body carries, admin included; registrations add nothing    *)
(* else and change no existing row.                                       *)
C11_RegisteredRoleIsManufacturer ==
    [][ \A i \in Req :
            (Ends(i, "register") /\ req'[i].code = 201) =>
                /\ Len(users') = Len(users) + 1
                /\ SubSeq(users', 1, Len(users)) = users
                /\ users'[Len(users')].email = req[i].body.email
                /\ users'[Len(users')].role = "manufacturer"
      ]_vars

\* a registration that asked for role admin has been answered 201
C11_Witness ==
    \E i \in Req :
        /\ req[i].op = "register" /\ req[i].pc = "done" /\ req[i].code = 201
        /\ req[i].body.role = "admin"
        /\ users[req[i].user].email = req[i].body.email
        /\ users[req[i].user].role = "manufacturer"

(* C12: a mint_warehouse_tags or mint_direct_tags request of a user whose *)
(* role is not admin is answered 403; it adds no Batch row, draws no      *)
(* batch id, adds no Tag row and makes no external mint call.             *)
MintEndpoints == {"mint_warehouse", "mint_direct"}

C25_MintedButNotStored ==
    [][\A i \in Req :
        (/\ \E op \in MintEndpoints : Starts(i, op)
         /\ chain' # chain
         /\ req'[i].code # 200)
        => /\ req'[i].pc = "done" /\ req'[i].code = 500
           /\ chain'.txs = chain.txs + 1
           /\ Range(chain'.last.codes) \subseteq chain'.codes
           /\ tags' = tags /\ batches' = batches
           /\ \A b \in batches' : b.id # req'[i].batch.id
           /\ \A c \in Range(chain'.last.codes) \ SeenCodes :
                  \A t \in DOMAIN tags' : tags'[t].tag_code # c]_vars

\* a mint has answered 500 after its codes were minted on the contract, and
\* the store has no Tag row for a code of that call and no row of its batch
C25_Witness ==
    \E i \in Req :
        /\ req[i].op \in MintEndpoints /\ req[i].pc = "done" /\ req[i].code = 500
        /\ req[i].batch.tx = chain.txs /\ chain.txs > 0
        /\ Range(chain.last.codes) \subseteq chain.codes
        /\ \E c \in Range(chain.last.codes) : \A t \in DOMAIN tags : tags[t].tag_code # c
        /\ \A b \in batches : b.id # req[i].batch.id

(* C13: a warehouse mint of count n that answers 200 records one batch    *)
(* (no product, mint_type warehouse, status minted), makes one external   *)
(* call, to the warehouse entry point with the n generated codes and      *)
(* nothing else, and adds exactly n Tag rows, each unused, without        *)
(* product, with the batch's id and the batch's transaction hash.         *)
NewTagRows == SubSeq(tags', Len(tags) + 1, Len(tags'))

MintMaterializes(i, n, fn, arg, tagStatus, tagProduct) ==
    LET b == req'[i].batch
    IN  /\ b \notin batches /\ batches' = batches \cup {b}
        /\ b.count = n /\ b.status = "minted" /\ b.product_id = tagProduct
        /\ chain'.txs = chain.txs + 1
        /\ chain'.last.fn = fn /\ chain'.last.arg = arg
        /\ Len(chain'.last.codes) = n
        /\ Len(tags') = Len(tags) + n
        /\ SubSeq(tags', 1, Len(tags)) = tags
        /\ \A k \in DOMAIN NewTagRows :
               /\ NewTagRows[k].tag_code = chain'.last.codes[k]
               /\ NewTagRows[k].status = tagStatus
               /\ NewTagRows[k].product_id = tagProduct
               /\ NewTagRows[k].batch_id = b.id
               /\ NewTagRows[k].blockchain_tx_hash = b.tx

WarehouseMintFrom(least) ==
    \A i \in Req :
        (Starts(i, "mint_warehouse") /\ req'[i].code = 200 /\ req'[i].count >= least) =>
            /\ req'[i].batch.mint_type = "warehouse"
            /\ MintMaterializes(i, req'[i].count, "mintWarehouseBatch", None, "unused", None)

C13_WarehouseMint == [][WarehouseMintFrom(-1)]_vars

\* the same for the counts that are numbers of tags
C13_WarehouseMintOfNaturalCount == [][WarehouseMintFrom(0)]_vars

(* C14: a direct mint request whose mint_type is not direct or that has   *)
(* no product id is answered 400 and changes nothing; a direct mint of    *)
(* count n that answers 200 adds exactly n Tag rows, each active, with    *)
(* the requested product and the new batch's id.                          *)
DirectMintRefused ==
    \A i \in Req :
        (/\ Starts(i, "mint_direct")
         /\ req'[i].user \in Admins
         /\ req'[i].mint_type # "direct" \/ req'[i].product_id = None)
        => /\ req'[i].code = 400
           /\ UNCHANGED <<store, batchSeq, chain>>

DirectMintFrom(least) ==
    \A i \in Req :
        (Starts(i, "mint_direct") /\ req'[i].code = 200 /\ req'[i].count >= least) =>
            /\ req'[i].batch.mint_type = "direct"
            /\ req'[i].product_id \in DOMAIN products
            /\ MintMaterializes(i, req'[i].count, "mintBatch", req'[i].product_id,
                                "active", req'[i].product_id)

C14_DirectMint == [][DirectMintRefused /\ DirectMintFrom(-1)]_vars

C14_DirectMintOfNaturalCount == [][DirectMintRefused /\ DirectMintFrom(0)]_vars

(* C15: every batch mint_warehouse_tags or mint_direct_tags stores has    *)
(* count > 0, and has a product_id exactly when its mint_type is direct,  *)
(* whatever integer the request's count is.                               *)
C15_BatchCountPositive ==
    [][ \A i \in Req :
            (\E op \in MintEndpoints : Starts(i, op)) =>
                \A b \in batches' \ batches :
                    /\ b.count > 0
                    /\ b.product_id # None <=> b.mint_type = "direct"
      ]_vars

\* the product half alone
C15_ProductIffDirect ==
    \A b \in batches : b.product_id # None <=> b.mint_type = "direct"

(* C16: /tags/verify computes the result in this order: a tag that is     *)
(* unused or flagged yields invalid whatever is on chain; otherwise, with *)
(* the contract available, an owner mismatch yields tampered, a rejection *)
(* by the contract yields invalid and any other fault blockchain_error,   *)
(* the Scan row being recorded all the same; otherwise the result is      *)
(* valid.                                                                 *)
ResultInOrder(status, hasContract, onchain) ==
    IF status \in {"unused", "flagged"} THEN "invalid"
    ELSE IF ~hasContract THEN "valid"
    ELSE CASE onchain = "owner_mismatch" -> "tampered"
           [] onchain = "logic_error" -> "invalid"
           [] onchain = "fault" -> "blockchain_error"
           [] OTHER -> "valid"

C16_TagsVerifyOrder ==
    [][ \A i \in Req :
            (Starts(i, "verify_tags") /\ req'[i].code # 404) =>
                /\ OneScanAppended(req'[i].tag_code)
                /\ scans'[Len(scans')].verification_result =
                       ResultInOrder(tags[req'[i].tag.id].status, contract, req'[i].onchain)
      ]_vars

\* the order holds for a token_id that int() parses, which no tag the
\* handlers create has
C16_OrderForNumericTokenId ==
    \A status \in {"unused", "active", "flagged"}, hasContract \in BOOLEAN, onchain \in OnChain :
        TagsResult(status, [prefix |-> "", uuid |-> 1], hasContract, onchain)
            = ResultInOrder(status, hasContract, onchain)

(* C17: verification is audit-only.  No call of either verification       *)
(* endpoint changes a Tag row, whatever result it records, and no step of *)
(* any handler changes or removes a Scan row: the rows are only appended  *)
(* to.                                                                    *)
VerificationStep(i) ==
    \/ req'[i].op = "verify_tags" /\ req[i].pc # "run" /\ req'[i].pc = "done"
    \/ Starts(i, "verify_public")
    \/ Ends(i, "verify_public")

C17_VerificationIsAuditOnly ==
    [][ /\ Len(scans') >= Len(scans)
        /\ SubSeq(scans', 1, Len(scans)) = scans
        /\ (scans' # scans \/ \E i \in Req : VerificationStep(i)) => tags' = tags
      ]_vars

\* an endpoint has recorded, after an earlier scan, a scan that is not
\* valid for a tag that is active, and the tag is active still
C17_Witness ==
    \E i \in Req :
        /\ req[i].op \in {"verify_tags", "verify_public"} /\ req[i].pc = "done"
        /\ req[i].tag.status = "active" /\ req[i].result \notin {"", "valid"}
        /\ Len(scans) = 2
        /\ scans[2].tag_id = req[i].tag.id
        /\ scans[2].verification_result = req[i].result
        /\ tags[req[i].tag.id].status = "active"

(* C18: a soft-deleted product is still returned to its owner by          *)
(* get_product, with status inactive, and list_products called without a  *)
(* status filter returns no product whose status is inactive.             *)
InactiveFetchable ==
    \A i \in Req :
        (/\ Starts(i, "get_product")
         /\ IsManufacturer(req'[i].user)
         /\ req'[i].product_id \in DOMAIN products
         /\ products[req'[i].product_id].manufacturer_id = req'[i].user)
        => /\ req'[i].code = 200
           /\ req'[i].listed = {req'[i].product_id}
           /\ req'[i].status = products[req'[i].product_id].status

DefaultListExcludesInactive ==
    \A i \in Req :
        (Starts(i, "list_products") /\ req'[i].code = 200 /\ req'[i].filter = NotSent) =>
            \A k \in req'[i].listed : products[k].status # "inactive"

C18_SoftDeletedFetchableNotListed ==
    [][InactiveFetchable /\ DefaultListExcludesInactive]_vars

\* the first half alone
C18_SoftDeletedFetchable == [][InactiveFetchable]_vars

(* C19: delete_product only sets the product's status to inactive: the    *)
(* row stays with its other columns, and no Tag, Batch or Scan row        *)
(* changes.                                                               *)
C19_DeleteIsLogical ==
    [][ \A i \in Req :
            (Starts(i, "delete_product") /\ req'[i].code = 204) =>
                /\ req'[i].product_id \in DOMAIN products
                /\ products' = [products EXCEPT ![req'[i].product_id].status = "inactive"]
                /\ tags' = tags
                /\ batches' = batches
                /\ scans' = scans
      ]_vars

\* a product with an active tag linked to it has been deleted by its owner
C19_Witness ==
    \E i \in Req, k \in DOMAIN tags :
        /\ req[i].op = "delete_product" /\ req[i].pc = "done" /\ req[i].code = 204
        /\ products[req[i].product_id].status = "inactive"
        /\ tags[k].product_id = req[i].product_id
        /\ tags[k].status = "active"
        /\ batches # {}

====
